---- MODULE Spec2Model ----
(***************************************************************************)
(* A model of octopart.py, the Python 2 client of the Octopart REST API.   *)
(*                                                                         *)
(* One client object serves one call at a time.  A call is an endpoint     *)
(* method of class Octopart or the constructor OctopartPart.  The state    *)
(* holds what the caller passed, what the server would answer, the local   *)
(* argument mapping as the method left it, how the call ended and how many *)
(* HTTP requests it issued.                                                *)
(*                                                                         *)
(* Python values are records tagged with their exact type, type(v).  Text  *)
(* is abstracted to its length, the only property of it the code reads.    *)
(* A dict is a function from its keys; a list is a sequence.               *)
(***************************************************************************)
EXTENDS Integers, Sequences, FiniteSets, TLC

VARIABLES
    pc,         \* "idle": no call in progress; "done": a call has ended
    op,         \* the method called: its API path, or "OctopartPart"
    posargs,    \* the positional arguments of the call, by parameter name
    kwargs,     \* the keyword arguments of the call, as the caller passed them
    resp,       \* what urlopen would answer, were a request issued
    args,       \* the method's local mapping `args` when the call ended
    outcome,    \* how the call ended: a returned value or a raised exception
    sent,       \* the number of urlopen calls the call made
    caught,     \* the code of the OctopartException the call caught, or NoError
    calls,      \* the calls of __validate_args the call made, in order
    part_dict   \* the mapping handed to OctopartPart, as the call left it

vars == <<pc, op, posargs, kwargs, resp, args, outcome, sent, caught, calls, part_dict>>

----------------------------------------------------------------------------
(* Bounds of the model. *)

MaxKeys == 2        \* keyword arguments per call
MaxLines == 2       \* line mappings per bom/match call
MaxOffers == 1      \* offers per part mapping

----------------------------------------------------------------------------
(* Python values: the type objects of `types` and the values they tag. *)

StringType == "str"
IntType == "int"
BooleanType == "bool"
ListType == "list"
DictType == "dict"
UnicodeType == "unicode"
NoneType == "NoneType"

PyInt(n) == [t |-> IntType, n |-> n]
PyBool(b) == [t |-> BooleanType, n |-> IF b THEN 1 ELSE 0]
PyStr(len) == [t |-> StringType, n |-> len]
PyUnicode(len) == [t |-> UnicodeType, n |-> len]
PyList(items) == [t |-> ListType, items |-> items]
PyDict(m) == [t |-> DictType, m |-> m]
None == [t |-> NoneType, n |-> 0]

EmptyDict == [k \in {} |-> None]

\* isinstance(v, basestring): str and unicode are the two subclasses.
IsBasestring(v) == v.t \in {StringType, UnicodeType}

\* x in range(...): list membership by ==, and True == 1, False == 0.
Range(start, stop) == start .. (stop - 1)
InRange(v, rng) == v.t \in {IntType, BooleanType} /\ v.n \in rng

\* len(v) of a text or a list.
PyLen(v) == IF v.t = ListType THEN Len(v.items) ELSE v.n

----------------------------------------------------------------------------
(* How a call, or a step of it, ends. *)

Return(val) == [kind |-> "return", exc |-> "", code |-> -1, val |-> val]
Raise(exc, code) == [kind |-> "raise", exc |-> exc, code |-> code, val |-> ""]
OctopartException(error_code) == Raise("OctopartException", error_code)
Passed == Return("passed")

----------------------------------------------------------------------------
(* Octopart.__translate_periods *)

translation ==
    ("drilldown_include" :> "drilldown.include") @@
    ("drilldown_fieldname" :> "drilldown.fieldname") @@
    ("drilldown_facets_prefix" :> "drilldown.facets.prefix") @@
    ("drilldown_facets_start" :> "drilldown.facets.start") @@
    ("drilldown_facets_limit" :> "drilldown.facets.limit") @@
    ("drilldown_facets_sortby" :> "drilldown.facets.sortby") @@
    ("drilldown_facets_include_hits" :> "drilldown.facets.include_hits") @@
    ("optimize_return_stubs" :> "optimize.return_stubs") @@
    ("optimize_hide_datasheets" :> "optimize.hide_datasheets") @@
    ("optimize_hide_descriptions" :> "optimize.hide_descriptions") @@
    ("optimize_hide_images" :> "optimize.hide_images") @@
    ("optimize_hide_hide_offers" :> "optimize.hide_hide_offers") @@
    ("optimize_hide_hide_unauthorized_offers" :> "optimize.hide_hide_unauthorized_offers") @@
    ("optimize_hide_specs" :> "optimize.hide_specs")

\* The key under which the loop body leaves the entry it found under `key`.
TranslateKey(key) == IF key \in DOMAIN translation THEN translation[key] ELSE key

\* args[translation[key]] = args.pop(key) inside `for key in args`: the pop
\* and the store leave the dict one entry short when translation[key] is
\* already a key of it, and the dict iterator of Python 2 then raises
\* RuntimeError ("dictionary changed size during iteration") on its next
\* step, which the for loop always takes.
SizeChanges(m) == \E key \in DOMAIN m : key \in DOMAIN translation /\ translation[key] \in DOMAIN m

RECURSIVE TranslatePeriods(_)
RECURSIVE TranslateItems(_)

\* The loop over a list value: every element that is a dict is translated
\* in place; other elements, lists included, are left alone.
TranslateItems(items) ==
    IF items = <<>> THEN [err |-> FALSE, items |-> <<>>]
    ELSE LET a == Head(items)
             first == IF a.t = DictType
                      THEN LET r == TranslatePeriods(a.m)
                           IN [err |-> r.err, v |-> PyDict(r.m)]
                      ELSE [err |-> FALSE, v |-> a]
             rest == TranslateItems(Tail(items))
         IN [err |-> first.err \/ rest.err, items |-> <<first.v>> \o rest.items]

\* What one pass of the loop does to the value under a key.
TranslateValue(v) ==
    IF v.t = DictType
    THEN LET r == TranslatePeriods(v.m) IN [err |-> r.err, v |-> PyDict(r.m)]
    ELSE IF v.t = ListType
    THEN LET r == TranslateItems(v.items) IN [err |-> r.err, v |-> PyList(r.items)]
    ELSE [err |-> FALSE, v |-> v]

\* The mapping the method returns, or err when it raises RuntimeError.  The
\* mappings of the model are freshly built and hold fewer keys than make
\* the dict rebuild its table while the loop runs, so the loop visits every
\* key the caller passed.
TranslatePeriods(m) ==
    LET vals == [key \in DOMAIN m |-> TranslateValue(m[key])]
        keys == {TranslateKey(key) : key \in DOMAIN m}
    IN IF SizeChanges(m) \/ (\E key \in DOMAIN m : vals[key].err)
       THEN [err |-> TRUE, m |-> EmptyDict]
       ELSE [err |-> FALSE,
             m |-> [k \in keys |-> vals[CHOOSE key \in DOMAIN m : TranslateKey(key) = k].v]]

----------------------------------------------------------------------------
(* Octopart.__validate_args *)

NoError == -1

\* The body of `for key in args_set` for one key: the code of the
\* OctopartException it raises, or NoError.
CheckKey(a, arg_types, arg_ranges, key) ==
    IF arg_types[key] = StringType /\ ~IsBasestring(a[key]) THEN 2
    ELSE IF arg_types[key] # StringType /\ a[key].t # arg_types[key] THEN 2
    ELSE IF key \in DOMAIN arg_ranges
    THEN IF arg_types[key] = StringType
         THEN IF PyLen(a[key]) < arg_ranges[key].min
                 \/ (~arg_ranges[key].inf /\ PyLen(a[key]) > arg_ranges[key].max)
              THEN 5 ELSE NoError
         ELSE IF ~InRange(a[key], arg_ranges[key]) THEN 4 ELSE NoError
    ELSE NoError

\* The function body: the set of ways it can end.  The loop runs over a
\* set, whose order is the hash order of the keys, and the first key that
\* fails ends it: any failing key may be that one.
ValidateArgs(a, arg_types, arg_ranges) ==
    LET valid_args == DOMAIN arg_types
        args_set == DOMAIN a
        keys == DOMAIN a          \* args.keys(): a dict holds a key once
        raised == {CheckKey(a, arg_types, arg_ranges, key) : key \in args_set} \ {NoError}
    IN IF ~(args_set \subseteq valid_args) THEN {OctopartException(1)}
       ELSE IF raised # {} THEN {OctopartException(c) : c \in raised}
       ELSE IF Cardinality(args_set) # Cardinality(keys) THEN {OctopartException(3)}
       ELSE {Passed}

\* def __validate_args(args, arg_types, arg_ranges): three parameters and
\* no self.
ValidateArgsParams == 3

\* self.__validate_args(args, arg_types, arg_ranges): a bound method call
\* passes the receiver first, then the three arguments written.
BoundCallArgs == 1 + 3

InvokeValidateArgs_Skipped(a, arg_types, arg_ranges) == {Passed}

\* The call as every endpoint method writes it.  Python raises TypeError
\* ("takes exactly 3 arguments (4 given)") when the counts differ, before
\* the body runs.
InvokeValidateArgs(a, arg_types, arg_ranges) ==
    IF BoundCallArgs # ValidateArgsParams
    THEN {Raise("TypeError", -1)}
    ELSE ValidateArgs(a, arg_types, arg_ranges)

\* One call of __validate_args as the method sees it: what it handed over,
\* a line or the argument mapping, and whether the body ran, which it does
\* unless the call itself raised TypeError.
Called(what, v) == [what |-> what, ran |-> v.exc # "TypeError"]

----------------------------------------------------------------------------
(* Octopart.__get and the two shapes of `except urllib2.HTTPError as e`. *)

\* What urlopen answers: a body that json.loads turns into a false value
\* ("empty") or a true one ("full"), or an HTTPError with a status.
Responses ==
    {[status |-> 200, body |-> "empty"], [status |-> 200, body |-> "full"],
     [status |-> 404, body |-> ""], [status |-> 503, body |-> ""],
     [status |-> 500, body |-> ""]}

\* The client is built as Octopart(): apikey, callback and pretty_print
\* keep their defaults and __get adds nothing to args.  It issues the one
\* urlopen of the call and returns the decoded body or lets HTTPError out.
Get(method, a, r) ==
    IF r.status = 200 THEN Return(r.body) ELSE Raise("HTTPError", r.status)

\* categories_get, parts_get, partattributes_get
ExceptReturnNone(e) ==
    IF e.code = 404 THEN Return("None")
    ELSE IF e.code = 503 THEN OctopartException(8)
    ELSE e

\* categories_get_multi, categories_search, parts_get_multi, parts_search,
\* parts_suggest, parts_match, partattributes_get_multi, bom_match
ExceptRaise(e) ==
    IF e.code = 404 THEN OctopartException(7)
    ELSE IF e.code = 503 THEN OctopartException(8)
    ELSE e

ReturnsNoneOn404 == {"categories/get", "parts/get", "partattributes/get"}

\* a.get(key) as a truth value.
Truthy(a, key) ==
    /\ key \in DOMAIN a
    /\ IF a[key].t = ListType THEN a[key].items # <<>>
       ELSE IF a[key].t = DictType THEN DOMAIN a[key].m # {}
       ELSE a[key].n # 0

\* The lines after the try blocks: what the method makes of json_obj.  A
\* full body holds at least one result, part bodies without specs.
\* OctopartPartAttribute.__init__ reads the undefined name `fieldanme`, and
\* bom_match the undefined name `part`: both end in NameError.
Decode(method, json_obj, a) ==
    IF method \in {"categories/get", "parts/get"}
    THEN IF json_obj = "full" THEN Return("object") ELSE Return("None")
    ELSE IF method = "parts/match"
    THEN IF json_obj = "full" THEN Return("json") ELSE Return("None")
    ELSE IF method \in {"partattributes/get", "partattributes/get_multi", "bom/match"}
    THEN IF json_obj = "full" THEN Raise("NameError", -1)
         ELSE IF method = "partattributes/get" THEN Return("None") ELSE Return("[]")
    ELSE IF method = "parts/search"
    THEN IF json_obj = "full"
         THEN IF Truthy(a, "drilldown.include") THEN Raise("NameError", -1)
              ELSE Return("([objects], [])")
         ELSE Return("([], [])")
    ELSE IF json_obj = "full" THEN Return("[objects]") ELSE Return("[]")

\* The second try block of an endpoint method and what follows it.
Fetch(method, a, r) ==
    LET got == Get(method, a, r)
    IN IF got.kind = "raise"
       THEN IF method \in ReturnsNoneOn404 THEN ExceptReturnNone(got) ELSE ExceptRaise(got)
       ELSE Decode(method, got.val, a)

\* The two try blocks of an endpoint method, given how the validation
\* ended: `except OctopartException: return None` catches only that class.
Validated(method, a, r, v) ==
    IF v = Passed
    THEN [o |-> Fetch(method, a, r), sent |-> 1, caught |-> NoError,
          calls |-> <<Called("args", v)>>]
    ELSE IF v.exc = "OctopartException"
    THEN [o |-> Return("None"), sent |-> 0, caught |-> v.code,
          calls |-> <<Called("args", v)>>]
    ELSE [o |-> v, sent |-> 0, caught |-> NoError, calls |-> <<Called("args", v)>>]

\* Every way the two try blocks can end.
Endpoint(method, a, arg_types, arg_ranges, r) ==
    {Validated(method, a, r, v) : v \in InvokeValidateArgs(a, arg_types, arg_ranges)}

\* __translate_periods raised before `args` was bound.
TranslationRaised ==
    [o |-> Raise("RuntimeError", -1), sent |-> 0, caught |-> NoError, calls |-> <<>>]

----------------------------------------------------------------------------
(* The calls a caller can make: keyword mappings of at most MaxKeys keys. *)

\* Every mapping that binds at most MaxKeys of the keys of `cand`, each to
\* one of the values `cand` offers for it.
KwargsOver(cand) ==
    UNION {{f \in [S -> UNION {cand[k] : k \in S}] : \A k \in S : f[k] \in cand[k]} :
           S \in {T \in SUBSET DOMAIN cand : Cardinality(T) <= MaxKeys}}

\* The state between calls.
Idle ==
    /\ pc = "idle" /\ op = "" /\ posargs = EmptyDict /\ kwargs = EmptyDict
    /\ resp = [status |-> 0, body |-> ""] /\ args = EmptyDict
    /\ outcome = Return("None") /\ sent = 0 /\ caught = NoError
    /\ calls = <<>> /\ part_dict = EmptyDict

\* An endpoint method called with pos and kw ends as `end`, its local
\* mapping being a.
Finish(method, pos, kw, r, a, end) ==
    /\ pc' = "done" /\ op' = method /\ posargs' = pos /\ kwargs' = kw
    /\ resp' = r /\ args' = a
    /\ outcome' = end.o /\ sent' = end.sent /\ caught' = end.caught
    /\ calls' = end.calls /\ part_dict' = EmptyDict

----------------------------------------------------------------------------
(* The endpoint methods without keyword translation. *)

categories_get_arg_types == ("id" :> IntType)

categories_get ==
    /\ pc = "idle"
    /\ \E id \in {PyInt(1), PyBool(TRUE), PyStr(1)}, r \in Responses :
         LET a == ("id" :> id)
         IN \E end \in Endpoint("categories/get", a, categories_get_arg_types, EmptyDict, r) :
              Finish("categories/get", a, EmptyDict, r, a, end)

categories_get_multi_arg_types == ("ids" :> ListType)

categories_get_multi ==
    /\ pc = "idle"
    /\ \E ids \in {PyList(<<>>), PyList(<<PyInt(1)>>), PyInt(1)}, r \in Responses :
         LET a == ("ids" :> ids)
         IN \E end \in Endpoint("categories/get_multi", a, categories_get_multi_arg_types, EmptyDict, r) :
              Finish("categories/get_multi", a, EmptyDict, r, a, end)

categories_search_arg_types ==
    ("q" :> StringType) @@ ("start" :> IntType) @@ ("limit" :> IntType) @@
    ("ancestor_id" :> IntType)

categories_search_inputs ==
    ("q" :> {PyStr(3), PyUnicode(3), PyInt(5)}) @@
    ("start" :> {PyInt(0), PyInt(-1)}) @@
    ("limit" :> {PyInt(5), PyBool(TRUE)}) @@
    ("ancestor_id" :> {PyInt(1)}) @@
    ("callback" :> {PyStr(2)})

categories_search ==
    /\ pc = "idle"
    /\ \E kw \in KwargsOver(categories_search_inputs), r \in Responses :
         \E end \in Endpoint("categories/search", kw, categories_search_arg_types, EmptyDict, r) :
           Finish("categories/search", EmptyDict, kw, r, kw, end)

parts_suggest_arg_types == ("q" :> StringType) @@ ("limit" :> IntType)

\* float("inf") as the max of the length pair: no length exceeds it.
parts_suggest_arg_ranges ==
    ("q" :> [min |-> 2, max |-> 0, inf |-> TRUE]) @@ ("limit" :> Range(0, 11))

parts_suggest_inputs ==
    ("limit" :> {PyInt(-1), PyInt(0), PyInt(10), PyInt(11), PyBool(TRUE)}) @@
    ("start" :> {PyInt(0)})

parts_suggest ==
    /\ pc = "idle"
    /\ \E q \in {PyStr(0), PyStr(1), PyStr(2), PyStr(3), PyUnicode(1), PyInt(5)},
          kw \in KwargsOver(parts_suggest_inputs), r \in Responses :
         LET a == ("q" :> q) @@ kw
         IN \E end \in Endpoint("parts/suggest", a, parts_suggest_arg_types, parts_suggest_arg_ranges, r) :
              Finish("parts/suggest", ("q" :> q), kw, r, a, end)

parts_match_arg_types == ("manufacturer_name" :> StringType) @@ ("mpn" :> StringType)

parts_match ==
    /\ pc = "idle"
    /\ \E manufacturer_name \in {PyStr(3), PyInt(5)}, mpn \in {PyStr(4), PyUnicode(4), None},
          r \in Responses :
         LET a == ("manufacturer_name" :> manufacturer_name) @@ ("mpn" :> mpn)
         IN \E end \in Endpoint("parts/match", a, parts_match_arg_types, EmptyDict, r) :
              Finish("parts/match", a, EmptyDict, r, a, end)

partattributes_get_arg_types == ("fieldname" :> StringType)

partattributes_get ==
    /\ pc = "idle"
    /\ \E fieldname \in {PyStr(3), PyUnicode(3), PyInt(5)}, r \in Responses :
         LET a == ("fieldname" :> fieldname)
         IN \E end \in Endpoint("partattributes/get", a, partattributes_get_arg_types, EmptyDict, r) :
              Finish("partattributes/get", a, EmptyDict, r, a, end)

partattributes_get_multi_arg_types == ("fieldnames" :> ListType)

partattributes_get_multi ==
    /\ pc = "idle"
    /\ \E fieldnames \in {PyList(<<>>), PyList(<<PyStr(3)>>), PyStr(3)}, r \in Responses :
         LET a == ("fieldnames" :> fieldnames)
         IN \E end \in Endpoint("partattributes/get_multi", a, partattributes_get_multi_arg_types, EmptyDict, r) :
              Finish("partattributes/get_multi", a, EmptyDict, r, a, end)

----------------------------------------------------------------------------
(* The endpoint methods that translate their keyword arguments first. *)

\* A method that binds args = self.__translate_periods(kwargs), stores its
\* positional arguments in args and runs the two try blocks.
Translating(method, pos, kw, arg_types, arg_ranges, r) ==
    LET tr == TranslatePeriods(kw)
        a == pos @@ tr.m
    IN IF tr.err
       THEN Finish(method, pos, kw, r, EmptyDict, TranslationRaised)
       ELSE \E end \in Endpoint(method, a, arg_types, arg_ranges, r) :
              Finish(method, pos, kw, r, a, end)

parts_get_arg_types ==
    ("uid" :> IntType) @@
    ("optimize.hide_datasheets" :> BooleanType) @@
    ("optimize.hide_descriptions" :> BooleanType) @@
    ("optimize.hide_images" :> BooleanType) @@
    ("optimize.hide_hide_offers" :> BooleanType) @@
    ("optimize.hide_hide_unauthorized_offers" :> BooleanType) @@
    ("optimize.hide_specs" :> BooleanType)

optimize_inputs ==
    ("optimize_hide_specs" :> {PyBool(TRUE)}) @@
    ("optimize.hide_specs" :> {PyBool(FALSE), PyInt(1)}) @@
    ("optimize_hide_images" :> {PyBool(TRUE)}) @@
    ("optimize_return_stubs" :> {PyBool(TRUE)}) @@
    ("hide_specs" :> {PyBool(TRUE)})

parts_get ==
    /\ pc = "idle"
    /\ \E uid \in {PyInt(1), PyStr(1)}, kw \in KwargsOver(optimize_inputs), r \in Responses :
         Translating("parts/get", ("uid" :> uid), kw, parts_get_arg_types, EmptyDict, r)

parts_get_multi_arg_types ==
    ("uids" :> StringType) @@
    ("optimize.hide_datasheets" :> BooleanType) @@
    ("optimize.hide_descriptions" :> BooleanType) @@
    ("optimize.hide_images" :> BooleanType) @@
    ("optimize.hide_hide_offers" :> BooleanType) @@
    ("optimize.hide_hide_unauthorized_offers" :> BooleanType) @@
    ("optimize.hide_specs" :> BooleanType)

parts_get_multi ==
    /\ pc = "idle"
    /\ \E uids \in {PyStr(3), PyList(<<PyInt(1)>>)}, kw \in KwargsOver(optimize_inputs),
          r \in Responses :
         Translating("parts/get_multi", ("uids" :> uids), kw, parts_get_multi_arg_types, EmptyDict, r)

parts_search_arg_types ==
    ("q" :> StringType) @@
    ("start" :> IntType) @@
    ("limit" :> IntType) @@
    ("filters" :> ListType) @@
    ("rangedfilters" :> ListType) @@
    ("sortby" :> ListType) @@
    ("drilldown.include" :> BooleanType) @@
    ("drilldown.fieldname" :> StringType) @@
    ("drilldown.facets.prefix" :> StringType) @@
    ("drilldown.facets.start" :> IntType) @@
    ("drilldown.facets.limit" :> IntType) @@
    ("drilldown.facets.sortby" :> StringType) @@
    ("drilldown.facets.include_hits" :> BooleanType) @@
    ("optimize.hide_datasheets" :> BooleanType) @@
    ("optimize.hide_descriptions" :> BooleanType) @@
    ("optimize.hide_images" :> BooleanType) @@
    ("optimize.hide_hide_offers" :> BooleanType) @@
    ("optimize.hide_hide_unauthorized_offers" :> BooleanType) @@
    ("optimize.hide_specs" :> BooleanType)

parts_search_arg_ranges ==
    ("start" :> Range(0, 1001)) @@
    ("limit" :> Range(0, 101)) @@
    ("drilldown.facets.start" :> Range(0, 1001)) @@
    ("drilldown.facets.limit" :> Range(0, 101))

\* The values at, below and above the ends of each range; an alias beside
\* its dotted key; a mapping nested in a keyword value and in a list.
parts_search_inputs ==
    ("q" :> {PyStr(3), PyInt(5)}) @@
    ("start" :> {PyInt(-1), PyInt(0), PyInt(1000), PyInt(1001)}) @@
    ("limit" :> {PyInt(-1), PyInt(0), PyInt(100), PyInt(101)}) @@
    ("drilldown.facets.start" :> {PyInt(-1), PyInt(0), PyInt(1000), PyInt(1001)}) @@
    ("drilldown.facets.limit" :> {PyInt(-1), PyInt(0), PyInt(100), PyInt(101)}) @@
    ("drilldown_facets_limit" :> {PyInt(100), PyInt(101)}) @@
    ("drilldown_include" :> {PyBool(TRUE)}) @@
    ("drilldown.include" :> {PyBool(FALSE)}) @@
    ("drilldown" :> {PyDict(("facets_limit" :> PyInt(5))),
                     PyDict(("drilldown_facets_limit" :> PyInt(5)))}) @@
    ("filters" :> {PyList(<<PyDict(("optimize_hide_specs" :> PyBool(TRUE)))>>),
                   PyList(<<PyDict(("optimize_hide_specs" :> PyBool(TRUE)) @@
                                   ("optimize.hide_specs" :> PyBool(FALSE)))>>)})

parts_search ==
    /\ pc = "idle"
    /\ \E kw \in KwargsOver(parts_search_inputs), r \in Responses :
         Translating("parts/search", EmptyDict, kw, parts_search_arg_types, parts_search_arg_ranges, r)

----------------------------------------------------------------------------
(* Octopart.bom_match *)

bom_match_arg_types ==
    ("lines" :> ListType) @@
    ("optimize.return_stubs" :> BooleanType) @@
    ("optimize.hide_datasheets" :> BooleanType) @@
    ("optimize.hide_descriptions" :> BooleanType) @@
    ("optimize.hide_images" :> BooleanType) @@
    ("optimize.hide_hide_offers" :> BooleanType) @@
    ("optimize.hide_hide_unauthorized_offers" :> BooleanType) @@
    ("optimize.hide_specs" :> BooleanType)

lines_required_args == {"reference"}

lines_arg_types ==
    ("q" :> StringType) @@
    ("mpn" :> StringType) @@
    ("manufacturer" :> StringType) @@
    ("sku" :> StringType) @@
    ("supplier" :> StringType) @@
    ("mpn_or_sku" :> StringType) @@
    ("start" :> IntType) @@
    ("limit" :> IntType) @@
    ("reference" :> StringType)

lines_arg_ranges == ("limit" :> Range(0, 21))

\* line.get(key, 0) of an integer entry.
LineGet(line, key) == IF key \in DOMAIN line THEN line[key].n ELSE 0

\* The body of the try block for one line, given how its validation ended:
\* the required keys, then start plus the entry under "match".
CheckLine(line, v) ==
    IF v # Passed
    THEN IF v.exc = "OctopartException"
         THEN [o |-> Return("None"), sent |-> 0, caught |-> v.code,
               calls |-> <<Called("line", v)>>]
         ELSE [o |-> v, sent |-> 0, caught |-> NoError, calls |-> <<Called("line", v)>>]
    ELSE IF ~(lines_required_args \subseteq DOMAIN line)
    THEN [o |-> Return("None"), sent |-> 0, caught |-> 0, calls |-> <<Called("line", v)>>]
    ELSE IF LineGet(line, "start") + LineGet(line, "match") > 100
    THEN [o |-> Return("None"), sent |-> 0, caught |-> 6, calls |-> <<Called("line", v)>>]
    ELSE [o |-> Passed, sent |-> 0, caught |-> NoError, calls |-> <<Called("line", v)>>]

RECURSIVE LinesLoop(_)

\* `for line in lines`: the ways the loop can end, Passed when it runs out.
LinesLoop(lines) ==
    IF lines = <<>> THEN {[o |-> Passed, sent |-> 0, caught |-> NoError, calls |-> <<>>]}
    ELSE UNION {LET c == CheckLine(Head(lines).m, v)
                IN IF c.o = Passed
                   THEN {[l EXCEPT !.calls = c.calls \o @] : l \in LinesLoop(Tail(lines))}
                   ELSE {c} :
                v \in InvokeValidateArgs(Head(lines).m, lines_arg_types, lines_arg_ranges)}

Ref == ("reference" :> PyStr(2))

\* Line mappings: with and without the reference, limits at and beyond the
\* ends of range(21), start plus limit at and beyond 100, an alias key.
LinePool ==
    {PyDict(Ref), PyDict(EmptyDict), PyDict(("mpn" :> PyStr(5))),
     PyDict(Ref @@ ("start" :> PyInt(90)) @@ ("limit" :> PyInt(15))),
     PyDict(Ref @@ ("start" :> PyInt(90)) @@ ("limit" :> PyInt(10))),
     PyDict(Ref @@ ("start" :> PyInt(101))),
     PyDict(Ref @@ ("limit" :> PyInt(20))), PyDict(Ref @@ ("limit" :> PyInt(21))),
     PyDict(Ref @@ ("limit" :> PyInt(0))), PyDict(Ref @@ ("limit" :> PyInt(-1))),
     PyDict(Ref @@ ("optimize_hide_specs" :> PyBool(TRUE))),
     PyDict(("reference" :> PyInt(7)))}

LineLists == UNION {[1..n -> LinePool] : n \in 0..MaxLines}

bom_match_inputs ==
    ("optimize_return_stubs" :> {PyBool(TRUE)}) @@
    ("optimize.return_stubs" :> {PyBool(FALSE)}) @@
    ("optimize_hide_specs" :> {PyInt(1)}) @@
    ("callback" :> {PyStr(2)})

bom_match ==
    /\ pc = "idle"
    /\ \E lines \in LineLists, kw \in KwargsOver(bom_match_inputs), r \in Responses :
         LET method == "bom/match"
             pos == ("lines" :> PyList(lines))
             tr == TranslatePeriods(kw)
             a == pos @@ tr.m
         IN IF tr.err
            THEN Finish(method, pos, kw, r, EmptyDict, TranslationRaised)
            ELSE \E l \in LinesLoop(lines) :
                   IF l.o # Passed
                   THEN Finish(method, pos, kw, r, a, l)
                   ELSE \E end \in Endpoint(method, a, bom_match_arg_types, EmptyDict, r) :
                          Finish(method, pos, kw, r, a, [end EXCEPT !.calls = l.calls \o @])

----------------------------------------------------------------------------
(* The domain model: OctopartBrand, OctopartPartAttribute, OctopartPart. *)

\* brand_dict[key] raises KeyError for an absent key.
OctopartBrand_new_from_dict(brand_dict) ==
    IF {"id", "displayname", "homepage_url"} \subseteq DOMAIN brand_dict
    THEN [err |-> "",
          v |-> [t |-> "OctopartBrand", id |-> brand_dict["id"],
                 displayname |-> brand_dict["displayname"],
                 homepage_url |-> brand_dict["homepage_url"]]]
    ELSE [err |-> "KeyError", v |-> PyDict(brand_dict)]

\* The arguments are read from the mapping, then __init__ runs and its
\* first line reads the name `fieldanme`, which nothing defines.
OctopartPartAttribute_new_from_dict(attribute_dict) ==
    IF {"fieldname", "displayname", "type"} \subseteq DOMAIN attribute_dict
    THEN [err |-> "NameError", v |-> PyDict(attribute_dict)]
    ELSE [err |-> "KeyError", v |-> PyDict(attribute_dict)]

\* mapping[key] = value
Store(mapping, key, value) == (key :> value) @@ mapping

\* An ISO 8601 text, with or without the final "Z".
Timestamp(z) == [t |-> StringType, n |-> IF z THEN 20 ELSE 19, z |-> z]

\* The body of `for offer in ...`: the supplier, then update_ts, which is
\* stored without its "Z" before datetime.strptime is looked up in the
\* module datetime, which has no such attribute.
ConvertOffer(offer) ==
    LET b == IF offer["supplier"].t = DictType
             THEN OctopartBrand_new_from_dict(offer["supplier"].m)
             ELSE [err |-> "", v |-> offer["supplier"]]
        o1 == Store(offer, "supplier", b.v)
    IN IF b.err # "" THEN [err |-> b.err, v |-> offer]
       ELSE IF "update_ts" \in DOMAIN o1
       THEN [err |-> "AttributeError", v |-> Store(o1, "update_ts", Timestamp(FALSE))]
       ELSE [err |-> "", v |-> o1]

\* The body of `for spec in ...`.
ConvertSpec(spec) ==
    IF spec["attribute"].t = DictType
    THEN LET r == OctopartPartAttribute_new_from_dict(spec["attribute"].m)
         IN [err |-> r.err, v |-> spec]
    ELSE [err |-> "", v |-> spec]

RECURSIVE ConvertOffers(_)
RECURSIVE ConvertSpecs(_)

\* A loop stops at the first entry that raises and leaves the later
\* entries as they were.
ConvertOffers(offers) ==
    IF offers = <<>> THEN [err |-> "", items |-> <<>>]
    ELSE LET r == ConvertOffer(Head(offers).m)
             rest == ConvertOffers(Tail(offers))
         IN IF r.err # "" THEN [err |-> r.err, items |-> <<PyDict(r.v)>> \o Tail(offers)]
            ELSE [err |-> rest.err, items |-> <<PyDict(r.v)>> \o rest.items]

ConvertSpecs(specs) ==
    IF specs = <<>> THEN [err |-> "", items |-> <<>>]
    ELSE LET r == ConvertSpec(Head(specs).m)
             rest == ConvertSpecs(Tail(specs))
         IN IF r.err # "" THEN [err |-> r.err, items |-> <<PyDict(r.v)>> \o Tail(specs)]
            ELSE [err |-> rest.err, items |-> <<PyDict(r.v)>> \o rest.items]

\* d.get(key, default)
DictGet(d, key, default) == IF key \in DOMAIN d THEN d[key] ELSE default

EmptyList == PyList(<<>>)

\* The assignments self.uid = ... to self.specs = ...
PartFields(d) ==
    [t |-> "OctopartPart",
     uid |-> d["uid"], mpn |-> d["mpn"], manufacturer |-> d["manufacturer"],
     detail_url |-> d["detail_url"],
     avg_price |-> DictGet(d, "avg_price", None),
     avg_avail |-> DictGet(d, "avg_avail", None),
     market_status |-> DictGet(d, "market_status", None),
     num_suppliers |-> DictGet(d, "num_suppliers", None),
     num_authsuppliers |-> DictGet(d, "num_authsuppliers", None),
     short_description |-> DictGet(d, "short_description", PyStr(0)),
     category_ids |-> DictGet(d, "category_ids", EmptyList),
     images |-> DictGet(d, "images", EmptyList),
     datasheets |-> DictGet(d, "datasheets", EmptyList),
     descriptions |-> DictGet(d, "descriptions", EmptyList),
     hyperlinks |-> DictGet(d, "hyperlinks", PyDict(EmptyDict)),
     offers |-> DictGet(d, "offers", EmptyList),
     specs |-> DictGet(d, "specs", EmptyList)]

\* OctopartPart.__init__: how it ends and what it leaves in part_dict.
OctopartPart(d) ==
    IF "manufacturer" \notin DOMAIN d THEN [o |-> Raise("KeyError", -1), d |-> d]
    ELSE
    LET b == IF d["manufacturer"].t = DictType
             THEN OctopartBrand_new_from_dict(d["manufacturer"].m)
             ELSE [err |-> "", v |-> d["manufacturer"]]
        d1 == Store(d, "manufacturer", b.v)
        offers == ConvertOffers(DictGet(d1, "offers", EmptyList).items)
        d2 == IF "offers" \in DOMAIN d1 THEN Store(d1, "offers", PyList(offers.items)) ELSE d1
        specs == ConvertSpecs(DictGet(d2, "specs", EmptyList).items)
    IN IF b.err # "" THEN [o |-> Raise(b.err, -1), d |-> d]
       ELSE IF offers.err # "" THEN [o |-> Raise(offers.err, -1), d |-> d2]
       ELSE IF specs.err # "" THEN [o |-> Raise(specs.err, -1), d |-> d2]
       ELSE IF ~({"uid", "mpn", "detail_url"} \subseteq DOMAIN d2)
       THEN [o |-> Raise("KeyError", -1), d |-> d2]
       ELSE [o |-> Return(PartFields(d2)), d |-> d2]

\* The JSON mappings of the service, and the objects a caller may hold.
BrandJson(i) ==
    PyDict(("id" :> PyInt(i)) @@ ("displayname" :> PyStr(i + 1)) @@
           ("homepage_url" :> PyStr(i + 2)))

BrandObject(i) ==
    [t |-> "OctopartBrand", id |-> PyInt(i), displayname |-> PyStr(i + 1),
     homepage_url |-> PyStr(i + 2)]

AttributeJson ==
    PyDict(("fieldname" :> PyStr(4)) @@ ("displayname" :> PyStr(5)) @@
           ("type" :> PyStr(6)))

OfferPool ==
    {PyDict(("supplier" :> b) @@ ("sku" :> PyStr(3)) @@ ts) :
       b \in {BrandJson(20), BrandObject(20)},
       ts \in {EmptyDict, ("update_ts" :> Timestamp(TRUE)), ("update_ts" :> Timestamp(FALSE))}}

OfferLists == UNION {[1..n -> OfferPool] : n \in 0..MaxOffers}

SpecLists ==
    {<<>>, <<PyDict(("attribute" :> AttributeJson) @@ ("value" :> PyStr(3)))>>,
     <<PyDict(("attribute" :> PyStr(4)) @@ ("value" :> PyStr(3)))>>}

PartRequired ==
    ("uid" :> PyInt(1)) @@ ("mpn" :> PyStr(7)) @@ ("detail_url" :> PyStr(9))

PartOptional ==
    ("avg_price" :> PyInt(3)) @@ ("short_description" :> PyStr(8)) @@
    ("category_ids" :> PyList(<<PyInt(4)>>))

\* The restriction of a mapping to some of its keys.
Restrict(m, S) == [k \in S |-> m[k]]

PartDicts ==
    {Restrict(PartRequired, req) @@ Restrict(PartOptional, opt) @@ man @@ offers @@ specs :
       req \in {DOMAIN PartRequired, DOMAIN PartRequired \ {"uid"}},
       opt \in SUBSET DOMAIN PartOptional,
       man \in {EmptyDict, ("manufacturer" :> BrandJson(10)),
                ("manufacturer" :> BrandObject(10)),
                ("manufacturer" :> PyDict(("id" :> PyInt(10))))},
       offers \in {EmptyDict} \cup {("offers" :> PyList(l)) : l \in OfferLists},
       specs \in {EmptyDict} \cup {("specs" :> PyList(l)) : l \in SpecLists}}

NewPart ==
    /\ pc = "idle"
    /\ \E d \in PartDicts :
         LET r == OctopartPart(d)
         IN /\ pc' = "done" /\ op' = "OctopartPart"
            /\ posargs' = ("part_dict" :> PyDict(d)) /\ kwargs' = EmptyDict
            /\ outcome' = r.o /\ part_dict' = r.d
            /\ UNCHANGED <<resp, args, sent, caught, calls>>

----------------------------------------------------------------------------
(* The client between and during calls. *)

Init == Idle

\* The caller takes the result and is free to call again.
NextCall ==
    /\ pc = "done"
    /\ pc' = "idle" /\ op' = "" /\ posargs' = EmptyDict /\ kwargs' = EmptyDict
    /\ resp' = [status |-> 0, body |-> ""] /\ args' = EmptyDict
    /\ outcome' = Return("None") /\ sent' = 0 /\ caught' = NoError
    /\ calls' = <<>> /\ part_dict' = EmptyDict

Next ==
    \/ categories_get
    \/ categories_get_multi
    \/ categories_search
    \/ parts_get
    \/ parts_get_multi
    \/ parts_search
    \/ parts_suggest
    \/ parts_match
    \/ partattributes_get
    \/ partattributes_get_multi
    \/ bom_match
    \/ NewPart
    \/ NextCall

Spec == Init /\ [][Next]_vars

----------------------------------------------------------------------------
(* Octopart.__validate_args as a function of its three parameters. *)

\* The schemas the function is applied to: the (arg_types, arg_ranges)
\* pairs the endpoint methods and the bom/match line loop declare.
validate_args_schemas ==
    {"categories/search", "parts/search", "parts/suggest", "bom/match line"}

validate_args_arg_types ==
    ("categories/search" :> categories_search_arg_types) @@
    ("parts/search" :> parts_search_arg_types) @@
    ("parts/suggest" :> parts_suggest_arg_types) @@
    ("bom/match line" :> lines_arg_types)

validate_args_arg_ranges ==
    ("categories/search" :> EmptyDict) @@
    ("parts/search" :> parts_search_arg_ranges) @@
    ("parts/suggest" :> parts_suggest_arg_ranges) @@
    ("bom/match line" :> lines_arg_ranges)

\* Arguments: texts at, below and above the least length, a text of the
\* other string class, numbers at and beyond the ends of the ranges,
\* values of another type, and a key no schema has.
validate_args_inputs ==
    ("q" :> {PyStr(1), PyStr(2), PyUnicode(2), PyInt(5)}) @@
    ("limit" :> {PyInt(10), PyInt(11), PyInt(20), PyInt(21), PyStr(1), PyBool(TRUE)}) @@
    ("callback" :> {PyStr(2)})

\* The function taken from the class and applied to (args, arg_types,
\* arg_ranges): its body runs, and its own handler catches the
\* OctopartException, prints it and raises it again.
validate_args ==
    /\ pc = "idle"
    /\ \E s \in validate_args_schemas, a \in KwargsOver(validate_args_inputs) :
         LET arg_types == validate_args_arg_types[s]
             arg_ranges == validate_args_arg_ranges[s]
         IN \E v \in ValidateArgs(a, arg_types, arg_ranges) :
              /\ pc' = "done" /\ op' = "__validate_args"
              /\ posargs' = ("args" :> PyDict(a)) @@ ("arg_types" :> PyDict(arg_types)) @@
                            ("arg_ranges" :> PyDict(arg_ranges))
              /\ args' = a /\ outcome' = v /\ caught' = v.code
              /\ calls' = <<Called("args", v)>>
              /\ UNCHANGED <<kwargs, resp, sent, part_dict>>

NextValidator ==
    \/ validate_args
    \/ NextCall

SpecValidator == Init /\ [][NextValidator]_vars

----------------------------------------------------------------------------
(* What the claims speak of. *)

Endpoints ==
    {"categories/get", "categories/get_multi", "categories/search", "parts/get",
     "parts/get_multi", "parts/search", "parts/suggest", "parts/match",
     "partattributes/get", "partattributes/get_multi", "bom/match"}

TranslatingEndpoints == {"parts/get", "parts/get_multi", "parts/search", "bom/match"}

SchemaTypes ==
    ("categories/get" :> categories_get_arg_types) @@
    ("categories/get_multi" :> categories_get_multi_arg_types) @@
    ("categories/search" :> categories_search_arg_types) @@
    ("parts/get" :> parts_get_arg_types) @@
    ("parts/get_multi" :> parts_get_multi_arg_types) @@
    ("parts/search" :> parts_search_arg_types) @@
    ("parts/suggest" :> parts_suggest_arg_types) @@
    ("parts/match" :> parts_match_arg_types) @@
    ("partattributes/get" :> partattributes_get_arg_types) @@
    ("partattributes/get_multi" :> partattributes_get_multi_arg_types) @@
    ("bom/match" :> bom_match_arg_types)

SchemaRanges ==
    [method \in Endpoints |->
       IF method = "parts/search" THEN parts_search_arg_ranges
       ELSE IF method = "parts/suggest" THEN parts_suggest_arg_ranges
       ELSE EmptyDict]

\* An endpoint call has ended and its keyword translation did not raise.
Ended == pc = "done" /\ op \in Endpoints /\ outcome.exc # "RuntimeError"

\* The line mappings of the bom/match call that ended.
Lines == IF op = "bom/match" THEN posargs["lines"].items ELSE <<>>

\* The rules of the validator reject the line, or the arguments.
LineRejected(line) == Passed \notin ValidateArgs(line.m, lines_arg_types, lines_arg_ranges)
ArgsRejected == Passed \notin ValidateArgs(args, SchemaTypes[op], SchemaRanges[op])

\* The call that ended breaks a rule of the validator: a key outside the
\* schema, a value of another type, a number outside its range or a text
\* outside its length pair, in a line or in the arguments.
FailsValidation ==
    /\ Ended
    /\ \/ \E i \in 1..Len(Lines) : LineRejected(Lines[i])
       \/ ArgsRejected

\* The call that ended breaks no rule of the validator.
MeetsSchema ==
    /\ Ended
    /\ \A i \in 1..Len(Lines) : ~LineRejected(Lines[i])
    /\ ~ArgsRejected

\* C1: an endpoint call whose arguments fail validation (unrecognized,
\* malformed, number out of range, length out of range) ends without having
\* issued an HTTP request.
C1_NoRequestWhenValidationFails == FailsValidation => sent = 0

\* A parts/search call with limit=101, to which the server would have
\* answered 200, has ended and no request went out.
C1_Witness ==
    /\ FailsValidation /\ op = "parts/search" /\ resp.status = 200
    /\ kwargs = ("limit" :> PyInt(101)) /\ sent = 0

\* The ended call lacks a required argument and is otherwise in order: q of
\* categories/search and parts/search, reference in a bom/match line.
MissingRequired ==
    /\ MeetsSchema
    /\ \/ op \in {"categories/search", "parts/search"} /\ "q" \notin DOMAIN args
       \/ \E i \in 1..Len(Lines) : "reference" \notin DOMAIN Lines[i].m

\* C2: a call that omits a required argument of its endpoint yields the
\* missing-required-argument error (code 0) and issues no request.
C2_MissingRequiredArgument == MissingRequired => (caught = 0 /\ sent = 0)

\* start + limit of a line mapping.
StartPlusLimit(line) == LineGet(line.m, "start") + LineGet(line.m, "limit")

\* The ended bom/match call is in order but for a line over the bound.
LineOverBound ==
    /\ MeetsSchema /\ op = "bom/match" /\ ~MissingRequired
    /\ \E i \in 1..Len(Lines) : StartPlusLimit(Lines[i]) > 100

\* C3: a bom/match call with a line whose start + limit exceeds 100 (start
\* 90, limit 15) fails with bom-line-limit-exceeded (code 6) and issues no
\* request.
C3_BomLineLimit == LineOverBound => (caught = 6 /\ sent = 0)

\* The ended call is in order: the request goes out and is answered.
InOrder ==
    /\ MeetsSchema /\ ~MissingRequired
    /\ \A i \in 1..Len(Lines) : StartPlusLimit(Lines[i]) <= 100

\* C4: a 503 answer on any endpoint surfaces as error 8; a 404 on the
\* single-item lookups yields an absent result and on parts/get_multi error
\* 7; any other status propagates unchanged.
C4_HttpErrorMapping ==
    InOrder =>
      /\ resp.status = 503 => outcome = OctopartException(8)
      /\ (resp.status = 404 /\ op \in ReturnsNoneOn404) => outcome = Return("None")
      /\ (resp.status = 404 /\ op = "parts/get_multi") => outcome = OctopartException(7)
      /\ resp.status = 500 => outcome = Raise("HTTPError", 500)

\* The range-constrained numeric arguments of the ended call: the keys of
\* the range mapping declared as integers and bound to an integer.
Constrained ==
    {key \in DOMAIN args \cap DOMAIN SchemaRanges[op] :
       SchemaTypes[op][key] = IntType /\ args[key].t = IntType}

\* C5: a value at the minimum or the maximum of its range is accepted by
\* validation, and a value one below or one above is rejected with
\* numeric-out-of-range (code 4): parts/search start, limit and the two
\* drilldown.facets keys, parts/suggest limit, the limit of a bom/match line.
C5_RangeBoundaries ==
    /\ (Ended /\ Cardinality(DOMAIN kwargs) = 1 /\ Constrained # {}
          /\ (op = "parts/suggest" => posargs["q"] = PyStr(2)))
       => \A key \in Constrained :
            IF InRange(args[key], SchemaRanges[op][key])
            THEN caught = NoError /\ sent = 1
            ELSE caught = 4 /\ sent = 0
    /\ (Ended /\ op = "bom/match" /\ kwargs = EmptyDict /\ Len(Lines) = 1
          /\ DOMAIN Lines[1].m = {"reference", "limit"})
       => IF InRange(Lines[1].m["limit"], lines_arg_ranges["limit"])
          THEN caught = NoError /\ sent = 1
          ELSE caught = 4 /\ sent = 0

\* No key of the mapping is an underscore alias of the table.
NoAlias(m) == DOMAIN m \cap DOMAIN translation = {}

\* C6: key translation is total and idempotent: for every keyword mapping it
\* returns a mapping that holds each entry under its dotted key, no alias
\* left, and translating that mapping again returns it unchanged.
C6_TranslationTotalIdempotent ==
    (pc = "done" /\ op \in TranslatingEndpoints) =>
      /\ outcome.exc # "RuntimeError"
      /\ NoAlias(args)
      /\ \A key \in DOMAIN kwargs : TranslateKey(key) \in DOMAIN args
      /\ LET again == TranslatePeriods(args) IN ~again.err /\ again.m = args

\* C7: translation descends into nested values: a drilldown block holding
\* facets_limit comes out holding facets.limit, and the line mappings of a
\* bom/match call are translated before validation and transport.
C7_NestedTranslation ==
    (pc = "done" /\ op \in TranslatingEndpoints /\ outcome.exc # "RuntimeError") =>
      /\ ("drilldown" \in DOMAIN kwargs /\ "facets_limit" \in DOMAIN kwargs["drilldown"].m)
           => "facets.limit" \in DOMAIN args["drilldown"].m
      /\ op = "bom/match" =>
           \A i \in 1..Len(args["lines"].items) : NoAlias(args["lines"].items[i].m)

\* C8: a call that supplies an argument twice after key normalization (the
\* alias optimize_hide_specs beside optimize.hide_specs) fails with
\* duplicate-argument (code 3).
C8_DuplicateArgument ==
    (pc = "done" /\ op \in TranslatingEndpoints /\ SizeChanges(kwargs)) => caught = 3

\* C9: a parts/suggest call whose q has length 1 fails validation with
\* length-out-of-range (code 5), and one whose q has length 2 or more passes
\* validation.
C9_SuggestLength ==
    (Ended /\ op = "parts/suggest" /\ kwargs = EmptyDict /\ IsBasestring(posargs["q"])) =>
      IF PyLen(posargs["q"]) < 2
      THEN caught = 5 /\ sent = 0
      ELSE caught = NoError /\ sent = 1

\* The mapping handed to OctopartPart is a JSON mapping of the service: the
\* required keys, a manufacturer sub-mapping with its three keys, supplier
\* and attribute sub-mappings.
JsonPart ==
    LET d == posargs["part_dict"].m
        subs == [key \in {"offers", "specs"} |-> DictGet(d, key, EmptyList).items]
    IN /\ {"uid", "mpn", "detail_url", "manufacturer"} \subseteq DOMAIN d
       /\ d["manufacturer"] = BrandJson(10)
       /\ \A i \in 1..Len(subs["offers"]) : subs["offers"][i].m["supplier"].t = DictType
       /\ \A i \in 1..Len(subs["specs"]) : subs["specs"][i].m["attribute"].t = DictType

\* C10: constructing a Part from a JSON mapping yields a Part whose
\* manufacturer is the Brand of the sub-mapping, whose offers' suppliers are
\* Brands and whose specs' attributes are PartAttributes, every other field
\* as supplied and the absent optional fields at their defaults.
C10_PartFromJson ==
    (pc = "done" /\ op = "OctopartPart" /\ JsonPart) =>
      LET d == posargs["part_dict"].m
          part == outcome.val
      IN /\ outcome.kind = "return"
         /\ part.manufacturer = BrandObject(10)
         /\ part.uid = d["uid"] /\ part.mpn = d["mpn"] /\ part.detail_url = d["detail_url"]
         /\ part.avg_price = DictGet(d, "avg_price", None)
         /\ part.short_description = DictGet(d, "short_description", PyStr(0))
         /\ part.category_ids = DictGet(d, "category_ids", EmptyList)
         /\ \A i \in 1..Len(part.offers.items) :
              /\ part.offers.items[i].m["supplier"].t = "OctopartBrand"
              /\ part.offers.items[i].m["sku"] = d["offers"].items[i].m["sku"]
              /\ "update_ts" \in DOMAIN d["offers"].items[i].m =>
                   part.offers.items[i].m["update_ts"] = d["offers"].items[i].m["update_ts"]
         /\ \A i \in 1..Len(part.specs.items) :
              part.specs.items[i].m["attribute"].t = "OctopartPartAttribute"

\* A call of the validator on its own has ended.
Validating == pc = "done" /\ op = "__validate_args"

\* The rules of the validator, each read off the three mappings of the
\* call that ended: a supplied key outside the type mapping; a value that
\* does not match its declared type, a text-typed argument taking any text
\* and every other type the exact type; a text whose length, or a number
\* whose value, is outside its declared range.
Unrecognized == \E key \in DOMAIN args : key \notin DOMAIN posargs["arg_types"].m

Malformed(key) ==
    LET declared == posargs["arg_types"].m[key]
    IN IF declared = StringType THEN ~IsBasestring(args[key])
       ELSE args[key].t # declared

LengthOutOfRange(key) ==
    /\ key \in DOMAIN posargs["arg_ranges"].m
    /\ posargs["arg_types"].m[key] = StringType
    /\ LET pair == posargs["arg_ranges"].m[key]
       IN PyLen(args[key]) < pair.min \/ (~pair.inf /\ PyLen(args[key]) > pair.max)

ValueOutOfRange(key) ==
    /\ key \in DOMAIN posargs["arg_ranges"].m
    /\ posargs["arg_types"].m[key] # StringType
    /\ ~InRange(args[key], posargs["arg_ranges"].m[key])

\* The ends the rule order allows: code 1 before any value is looked at,
\* else code 2 if any value is malformed, else the code of a range rule a
\* key breaks, else a pass.
RuleOrderEnds ==
    IF Unrecognized THEN {OctopartException(1)}
    ELSE IF \E key \in DOMAIN args : Malformed(key) THEN {OctopartException(2)}
    ELSE IF \E key \in DOMAIN args : LengthOutOfRange(key) \/ ValueOutOfRange(key)
    THEN {OctopartException(5) : key \in {k \in DOMAIN args : LengthOutOfRange(k)}}
         \cup {OctopartException(4) : key \in {k \in DOMAIN args : ValueOutOfRange(k)}}
    ELSE {Passed}

\* C11: the validator's outcome follows the rule order: unrecognized
\* argument (code 1) if any supplied key is outside the type mapping, else
\* malformed argument (code 2) if any value does not match its declared
\* type (a text-typed argument takes any text, every other type is exact),
\* else the range rule (code 5 for a text length, code 4 for a number), and
\* it passes only when no rule fails.
C11_ValidatorRuleOrder == Validating => outcome \in RuleOrderEnds

\* A bom/match call has ended, its keyword translation having returned.
BomEnded == Ended /\ op = "bom/match"

\* The line breaks the line schema: a key or value the validator rejects
\* (types, limit range), no reference, or start + limit above 100.
LineFails(line) ==
    \/ LineRejected(line)
    \/ "reference" \notin DOMAIN line.m
    \/ StartPlusLimit(line) > 100

\* The calls of the validator that ran, on lines and on the argument
\* mapping, and the places in `calls` where the argument mapping was
\* handed over.
LinesValidated == SelectSeq(calls, LAMBDA c : c.what = "line" /\ c.ran)
OuterValidated == SelectSeq(calls, LAMBDA c : c.what = "args" /\ c.ran)
OuterCalls == {j \in DOMAIN calls : calls[j].what = "args"}

\* C12: in a bom/match call every line is validated against the line
\* schema before the outer argument mapping is validated: the outer
\* validation comes after the validation of all the lines, a call whose
\* lines are all in order validates each of them and then the outer
\* mapping, and a failing line at any position ends the call with no outer
\* validation and no HTTP request.
C12_LinesBeforeOuter ==
    BomEnded =>
      /\ \A j \in OuterCalls :
           Len(SelectSeq(SubSeq(calls, 1, j - 1), LAMBDA c : c.what = "line" /\ c.ran))
             = Len(Lines)
      /\ (\E i \in 1..Len(Lines) : LineFails(Lines[i])) => (OuterCalls = {} /\ sent = 0)
      /\ (\A i \in 1..Len(Lines) : ~LineFails(Lines[i])) =>
           (Len(LinesValidated) = Len(Lines) /\ Len(OuterValidated) = 1)

====
